---- MODULE Spec2Model ----
(***************************************************************************)
(* A model of rugpi-bakery's recipe library (project/library.rs), recipe   *)
(* scheduler and recipe application engine (tasks/customize.rs), and of    *)
(* the lazily loaded fields of Project (project/mod.rs).                   *)
(*                                                                         *)
(* Names are modelled as sequences of '/'-free segments: the name "a/x"    *)
(* is <<"a", "x">>, so that str::split_once('/') is Head/Tail.  Arena      *)
(* indices (RecipeIdx, LayerIdx) are positions in a sequence, counted from *)
(* 1 instead of 0.  Option<T> is a record with a `some` flag.              *)
(***************************************************************************)
EXTENDS Integers, Sequences, FiniteSets, TLC

VARIABLES
    repos,      \* ProjectRepositories: root_repository, core_repository, repositories
    dirs,       \* per repository: the entries of recipes/ and layers/ in read_dir order
    lib,        \* the Library built by Library::load (None before load)
    call,       \* the last Library::lookup / lookup_layer call and what it returned
    config,     \* BakeryConfig: exclude, recipes, parameters
    pc,         \* position inside recipe_schedule / apply_recipes
    excluded,   \* recipe_schedule: `excluded`
    stack,      \* recipe_schedule: `stack`
    visited,    \* recipe_schedule: `visited`
    parameters, \* recipe_schedule: `parameters` (after collect)
    recipes,    \* recipe_schedule: `recipes`, the job list being built / returned
    hist,       \* recipe_schedule: order of first visits, indices pushed by the loop
    jobs,       \* apply_recipes: the `jobs` argument
    job_idx,    \* apply_recipes: position of the `for` loop over jobs
    step_idx,   \* apply_recipes: position of the `for` loop over steps
    guards,     \* apply_recipes: the live Mounted values, in declaration order
    events,     \* apply_recipes: mounts, unmounts and steps performed so far
    result,     \* apply_recipes: the value being returned
    busy,       \* apply_recipes: the targets whose unmount fails
    lazy,       \* Project: the two OnceCells of ProjectLazy
    loads,      \* Project: how often each loader has been invoked
    returns,    \* Project: what the calls of repositories() and library() returned
    run_result  \* run: the value returned by the customize task

libVars == <<repos, dirs, lib, call>>

schedVars == <<config, excluded, stack, visited, parameters, recipes, hist>>

applyVars == <<jobs, job_idx, step_idx, guards, events, result, busy>>

projVars == <<lazy, loads, returns>>

runVars == <<run_result>>

vars == <<libVars, schedVars, applyVars, projVars, runVars, pc>>

-----------------------------------------------------------------------------
(* Bounds of the model *)

\* number of repositories in ProjectRepositories
NumRepositories == 3

\* width in bits of the (signed) priority integer, scaled down from i64
PriorityBits == 3

\* the least value of the priority integer
MinPriority == -(2 ^ (PriorityBits - 1))

-----------------------------------------------------------------------------
(* Option<T> *)

None == [some |-> FALSE]

Some(v) == [some |-> TRUE, v |-> v]

\* HashMap::get on a map modelled as a function
Get(map, key) == IF key \in DOMAIN map THEN Some(map[key]) ELSE None

EmptyMap == [k \in {} |-> None]

\* HashMap::insert
Insert(map, key, value) ==
    [k \in DOMAIN map \cup {key} |-> IF k = key THEN value ELSE map[k]]

RepositoryIdx == 0 .. NumRepositories - 1

-----------------------------------------------------------------------------
(* Names *)

\* str::split_once('/'): None without a separator, else (before, after)
SplitOnce(name) ==
    IF Len(name) >= 2 THEN Some(<<Head(name), Tail(name)>>) ELSE None

\* the key under which a name-table holds an entry: a single segment.
\* A string that still contains a separator is never a key of a table.
TableGet(table, key) ==
    IF Len(key) = 1 THEN Get(table, key[1]) ELSE None

-----------------------------------------------------------------------------
(* Library::load *)

\* Architecture::from_str applied to what follows the first '.' of a file stem
ArchitectureNames == {"arm64", "armhf"}

ArchitectureFromStr(arch_str) ==
    IF Len(arch_str) = 1 /\ arch_str[1] \in ArchitectureNames
    THEN Some(arch_str[1]) ELSE None

\* the closure of the first `map` of Library::load, for one repository `idx`:
\* every directory entry is loaded (RecipeLoader::new(idx) tags the recipe with
\* its repository), pushed onto the arena and entered into the table by name.
RECURSIVE LoadRecipeDir(_, _, _, _)
LoadRecipeDir(entries, idx, arena, table) ==
    IF entries = <<>> THEN [recipes |-> arena, table |-> table]
    ELSE LET recipe == [repository |-> idx] @@ Head(entries)
             arena2 == Append(arena, recipe)
             recipe_idx == Len(arena2)
         IN LoadRecipeDir(Tail(entries), idx, arena2,
                          Insert(table, arena2[recipe_idx].name, recipe_idx))

\* faulty variant: one table is carried from repository to repository instead of a
\* fresh one per repository
RECURSIVE LoadRecipesSharedTable(_, _, _, _)
LoadRecipesSharedTable(recipe_dirs, idx, arena, tables) ==
    IF idx \notin RepositoryIdx THEN [recipes |-> arena, tables |-> tables]
    ELSE LET carried == IF idx = 0 THEN EmptyMap ELSE tables[idx - 1]
             r == LoadRecipeDir(recipe_dirs[idx], idx, arena, carried)
         IN LoadRecipesSharedTable(recipe_dirs, idx + 1, r.recipes,
                                   Insert(tables, idx, r.table))

\* repositories.repositories.iter().map(...).collect(): repositories in index order
RECURSIVE LoadRecipes(_, _, _, _)
LoadRecipes(recipe_dirs, idx, arena, tables) ==
    IF idx \notin RepositoryIdx THEN [recipes |-> arena, tables |-> tables]
    ELSE LET r == LoadRecipeDir(recipe_dirs[idx], idx, arena, EmptyMap)
         IN LoadRecipes(recipe_dirs, idx + 1, r.recipes,
                        Insert(tables, idx, r.table))

\* faulty variant: the modification time of the file read last
Latest(a, b) == b

Max(a, b) == IF a >= b THEN a ELSE b

\* Layer::new(modified)
NewLayer(modified) ==
    [modified |-> modified, default_config |-> None, arch_configs |-> EmptyMap]

\* the body of the loop over one layers/ directory.  An entry is
\* [stem, modified, config]; the result carries ok = FALSE when
\* Architecture::from_str fails.
RECURSIVE LoadLayerDir(_, _, _)
LoadLayerDir(entries, arena, table) ==
    IF entries = <<>> THEN [ok |-> TRUE, layers |-> arena, table |-> table]
    ELSE LET entry == Head(entries)
             split == SplitOnce(entry.stem)
             name == IF split.some THEN split.v[1] ELSE entry.stem[1]
             arch == IF split.some THEN ArchitectureFromStr(split.v[2]) ELSE None
             fresh == name \notin DOMAIN table
             arena2 == IF fresh THEN Append(arena, NewLayer(entry.modified)) ELSE arena
             layer_idx == IF fresh THEN Len(arena2) ELSE table[name]
             table2 == IF fresh THEN Insert(table, name, layer_idx) ELSE table
             layer == arena2[layer_idx]
             modified == Max(layer.modified, entry.modified)
             layer2 == IF split.some
                       THEN [layer EXCEPT !.modified = modified,
                                          !.arch_configs = Insert(@, arch.v, entry.config)]
                       ELSE [layer EXCEPT !.modified = modified,
                                          !.default_config = Some(entry.config)]
         IN IF split.some /\ ~arch.some
            THEN [ok |-> FALSE, layers |-> arena, table |-> table]
            ELSE LoadLayerDir(Tail(entries),
                              [arena2 EXCEPT ![layer_idx] = layer2], table2)

RECURSIVE LoadLayers(_, _, _, _)
LoadLayers(layer_dirs, idx, arena, tables) ==
    IF idx \notin RepositoryIdx THEN [ok |-> TRUE, layers |-> arena, tables |-> tables]
    ELSE LET r == LoadLayerDir(layer_dirs[idx], arena, EmptyMap)
         IN IF ~r.ok THEN [ok |-> FALSE, layers |-> arena, tables |-> tables]
            ELSE LoadLayers(layer_dirs, idx + 1, r.layers, Insert(tables, idx, r.table))

\* Library::load(repositories): None models the Err return
LibraryLoad(repositories, d) ==
    LET rs == LoadRecipes(d.recipes, 0, <<>>, EmptyMap)
        ls == LoadLayers(d.layers, 0, <<>>, EmptyMap)
    IN IF ~ls.ok THEN None
       ELSE Some([repositories |-> repositories,
                  recipes |-> rs.recipes,
                  recipe_tables |-> rs.tables,
                  layers |-> ls.layers,
                  layer_tables |-> ls.tables])

-----------------------------------------------------------------------------
(* Library::lookup and Library::lookup_layer *)

\* faulty variant: the suffix of a qualified name is looked up in the caller's table
LookupIgnoringPrefix(library, repository, name) ==
    LET split == SplitOnce(name)
    IN IF split.some
       THEN TableGet(library.recipe_tables[repository], split.v[2])
       ELSE TableGet(library.recipe_tables[repository], name)

\* faulty variant: the caller's own dependency map is consulted before the literal "core"
LookupDeclaredFirst(library, repository, name) ==
    LET split == SplitOnce(name)
    IN IF split.some
       THEN LET declared == library.repositories.repositories[repository].repositories
                dependency_idx ==
                    IF split.v[1] \in DOMAIN declared THEN Some(declared[split.v[1]])
                    ELSE IF split.v[1] = "core"
                         THEN Some(library.repositories.core_repository)
                         ELSE None
            IN IF dependency_idx.some
               THEN TableGet(library.recipe_tables[dependency_idx.v], split.v[2])
               ELSE None
       ELSE TableGet(library.recipe_tables[repository], name)

\* faulty variant: a prefix the caller does not declare is looked for among the
\* dependencies the other repositories declare
LookupAnyDeclaration(library, repository, name) ==
    LET split == SplitOnce(name)
        all == library.repositories.repositories
    IN IF split.some
       THEN LET dependency_name == split.v[1]
                declaring == {i \in DOMAIN all :
                                 dependency_name \in DOMAIN all[i].repositories}
                dependency_idx ==
                    IF dependency_name = "core"
                    THEN Some(library.repositories.core_repository)
                    ELSE IF dependency_name \in DOMAIN all[repository].repositories
                         THEN Some(all[repository].repositories[dependency_name])
                         ELSE IF declaring # {}
                              THEN Some(all[CHOOSE i \in declaring : TRUE]
                                            .repositories[dependency_name])
                              ELSE None
            IN IF dependency_idx.some
               THEN TableGet(library.recipe_tables[dependency_idx.v], split.v[2])
               ELSE None
       ELSE TableGet(library.recipe_tables[repository], name)

Lookup(library, repository, name) ==
    LET split == SplitOnce(name)
    IN IF split.some
       THEN LET dependency_name == split.v[1]
                recipe_name == split.v[2]
                dependency_idx ==
                    IF dependency_name = "core"
                    THEN Some(library.repositories.core_repository)
                    ELSE Get(library.repositories.repositories[repository].repositories,
                             dependency_name)
            IN IF dependency_idx.some
               THEN TableGet(library.recipe_tables[dependency_idx.v], recipe_name)
               ELSE None
       ELSE TableGet(library.recipe_tables[repository], name)

LookupLayer(library, repo, name) ==
    LET split == SplitOnce(name)
    IN IF split.some
       THEN LET dependency_name == split.v[1]
                layer_name == split.v[2]
                dependency_idx ==
                    IF dependency_name = "core"
                    THEN Some(library.repositories.core_repository)
                    ELSE Get(library.repositories.repositories[repo].repositories,
                             dependency_name)
            IN IF dependency_idx.some
               THEN TableGet(library.layer_tables[dependency_idx.v], layer_name)
               ELSE None
       ELSE TableGet(library.layer_tables[repo], name)

-----------------------------------------------------------------------------
(* Inputs of the lookup specification *)

PartialFunctions(D, R) == UNION {[S -> R] : S \in SUBSET D}

\* a recipe file whose info is all defaults
PlainRecipe(name) ==
    [name |-> name,
     info |-> [default |-> None, priority |-> 0, dependencies |-> <<>>,
               parameters |-> EmptyMap]]

LayerFile(stem, modified, cfg) == [stem |-> stem, modified |-> modified, config |-> cfg]

\* names a repository may give its dependencies, "core" among them
DependencyNames == {"core", "d"}

RecipeDirChoices ==
    {<<>>, <<PlainRecipe("x")>>, <<PlainRecipe("y"), PlainRecipe("x")>>}

LayerDirChoices ==
    {<<>>,
     <<LayerFile(<<"l">>, 1, "l")>>,
     <<LayerFile(<<"l", "arm64">>, 2, "l.arm64"), LayerFile(<<"l">>, 1, "l")>>,
     <<LayerFile(<<"l", "riscv">>, 1, "l.riscv")>>}

\* the names looked up: local, qualified by a declarable dependency, by
\* "core", by an undeclarable prefix, and with a second separator
RecipeQueries ==
    {<<"x">>, <<"y">>, <<"d", "x">>, <<"d", "y">>, <<"core", "x">>, <<"e", "x">>,
     <<"d", "x", "y">>}

LayerQueries ==
    {<<"l">>, <<"m">>, <<"d", "l">>, <<"core", "l">>, <<"e", "l">>}

NoCall == [fn |-> "none"]

\* the scheduler's variables while no schedule is being computed
SchedulerIdle ==
    /\ config = [exclude |-> {}, recipes |-> <<>>, parameters |-> EmptyMap]
    /\ excluded = {}
    /\ stack = <<>>
    /\ visited = {}
    /\ parameters = EmptyMap
    /\ recipes = <<>>
    /\ hist = [order |-> <<>>, pushes |-> <<>>]

\* apply_recipes' variables while it is not running
ApplyIdle ==
    /\ jobs = <<>>
    /\ job_idx = 0
    /\ step_idx = 0
    /\ guards = <<>>
    /\ events = <<>>
    /\ result = [state |-> "none"]
    /\ busy = {}

\* run's variable while the customize task is not running
RunIdle == run_result = [state |-> "none"]

\* Project's variables while no Project is in use
ProjectIdle ==
    /\ lazy = [repositories |-> None, library |-> None]
    /\ loads = [repositories |-> 0, library |-> 0]
    /\ returns = <<>>

\* One repository (`r`) declares dependencies, the others declare none; `r`
\* holds the recipes `own`, every other repository holds `other`.
InitLookup ==
    /\ \E r \in RepositoryIdx, core \in RepositoryIdx,
          m \in PartialFunctions(DependencyNames, RepositoryIdx),
          own \in RecipeDirChoices, other \in RecipeDirChoices,
          ls \in LayerDirChoices :
          /\ repos = [root_repository |-> 0,
                      core_repository |-> core,
                      repositories |->
                          [i \in RepositoryIdx |->
                              [repositories |-> IF i = r THEN m ELSE EmptyMap]]]
          /\ dirs = [recipes |-> [i \in RepositoryIdx |-> IF i = r THEN own ELSE other],
                     layers |-> [i \in RepositoryIdx |-> ls]]
    /\ lib = None
    /\ call = NoCall
    /\ pc = "load"
    /\ SchedulerIdle
    /\ ApplyIdle
    /\ ProjectIdle
    /\ RunIdle

\* Library::load
Load ==
    /\ pc = "load"
    /\ lib' = LibraryLoad(repos, dirs)
    /\ pc' = IF lib'.some THEN "loaded" ELSE "load_failed"
    /\ UNCHANGED <<repos, dirs, call, schedVars, applyVars, projVars, runVars>>

\* a call of Library::lookup on the loaded library
CallLookup ==
    /\ pc = "loaded"
    /\ \E repository \in RepositoryIdx, name \in RecipeQueries :
          call' = [fn |-> "lookup", repository |-> repository, name |-> name,
                   ret |-> Lookup(lib.v, repository, name)]
    /\ pc' = "called"
    /\ UNCHANGED <<repos, dirs, lib, schedVars, applyVars, projVars, runVars>>

\* a call of Library::lookup_layer on the loaded library
CallLookupLayer ==
    /\ pc = "loaded"
    /\ \E repo \in RepositoryIdx, name \in LayerQueries :
          call' = [fn |-> "lookup_layer", repository |-> repo, name |-> name,
                   ret |-> LookupLayer(lib.v, repo, name)]
    /\ pc' = "called"
    /\ UNCHANGED <<repos, dirs, lib, schedVars, applyVars, projVars, runVars>>

NextLookup == Load \/ CallLookup \/ CallLookupLayer

SpecLookup == InitLookup /\ [][NextLookup]_vars

-----------------------------------------------------------------------------
(* Inputs of the layer-scan specification *)

\* greatest number of files in a layers/ directory
MaxLayerFiles == 3

\* greatest modification time of a file
MaxMtime == 2

\* file stems: the layers "l" and "m", "l" with two architectures as well
LayerStems == {<<"l">>, <<"l", "arm64">>, <<"l", "armhf">>, <<"m">>}

\* the directories read: files with distinct stems, in every read order and
\* with every assignment of modification times
LayerScans ==
    UNION {{[i \in 1 .. n |-> LayerFile(s[i][1], s[i][2], "cfg")] :
                s \in {t \in [1 .. n -> LayerStems \X (1 .. MaxMtime)] :
                          \A i, j \in 1 .. n : t[i][1] = t[j][1] => i = j}} :
           n \in 0 .. MaxLayerFiles}

\* repository 1 holds the directory under study; every other repository
\* holds one file of a layer "l" with the greatest modification time
InitLayers ==
    /\ \E scan \in LayerScans :
          dirs = [recipes |-> [i \in RepositoryIdx |-> <<>>],
                  layers |-> [i \in RepositoryIdx |->
                                 IF i = 1 THEN scan
                                 ELSE <<LayerFile(<<"l">>, MaxMtime, "cfg")>>]]
    /\ repos = [root_repository |-> 0,
                core_repository |-> 1,
                repositories |-> [i \in RepositoryIdx |-> [repositories |-> EmptyMap]]]
    /\ lib = None
    /\ call = NoCall
    /\ pc = "load"
    /\ SchedulerIdle
    /\ ApplyIdle
    /\ ProjectIdle
    /\ RunIdle

SpecLayers == InitLayers /\ [][NextLookup]_vars

-----------------------------------------------------------------------------
(* Inputs of the scheduler specification *)

RecipeFile(name, default, priority, dependencies, params) ==
    [name |-> name,
     info |-> [default |-> default, priority |-> priority,
               dependencies |-> dependencies, parameters |-> params]]

\* ParameterDef
ParameterDef(default) == [default |-> default]

\* The root repository 0 declares the core repository 1 as its dependency
\* "a" (so "a/x" and "core/x" name the same recipe from the root), repository
\* 1 declares repository 2 as "c", and nobody else declares repository 2.
SchedulerRepositories ==
    [root_repository |-> 0,
     core_repository |-> 1,
     repositories |->
        [i \in RepositoryIdx |->
            [repositories |-> IF i = 0 THEN "a" :> 1
                              ELSE IF i = 1 THEN "c" :> 2
                              ELSE EmptyMap]]]

\* recipes x and y in the root, x in repository 1, z in repository 2
SchedulerDirs(x0, y0, x1, z2) ==
    [recipes |-> [i \in RepositoryIdx |->
                    IF i = 0 THEN <<x0, y0>>
                    ELSE IF i = 1 THEN <<x1>>
                    ELSE IF i = 2 THEN <<z2>>
                    ELSE <<>>],
     layers |-> [i \in RepositoryIdx |-> <<>>]]

Flags == {Some(TRUE), Some(FALSE)}

\* dependency graphs with chains across repositories, a diamond, cycles and
\* names that do not resolve from the depending recipe's repository
ClosureInputs ==
    {[dirs |-> SchedulerDirs(RecipeFile("x", dx, 0, depx, EmptyMap),
                             RecipeFile("y", dy, 0, depy, EmptyMap),
                             RecipeFile("x", da, 0, depa, EmptyMap),
                             RecipeFile("z", None, 0, depz, EmptyMap)),
      config |-> [exclude |-> e, recipes |-> r, parameters |-> EmptyMap]] :
        dx \in Flags, dy \in {Some(TRUE), None}, da \in Flags,
        depx \in {<<>>, <<<<"y">>, <<"a", "x">>>>, <<<<"a", "x">>>>},
        depy \in {<<>>, <<<<"x">>>>, <<<<"y">>, <<"core", "x">>>>, <<<<"z">>>>},
        depa \in {<<>>, <<<<"c", "z">>>>, <<<<"x">>>>, <<<<"y">>>>},
        depz \in {<<>>, <<<<"core", "x">>>>},
        e \in {{}, {<<"x">>}, {<<"y">>, <<"a", "x">>}, {<<"z">>}},
        r \in {<<>>, <<<<"x">>>>, <<<<"y">>, <<"y">>>>, <<<<"c", "z">>>>}}

ParameterDefChoices ==
    {EmptyMap,
     "p" :> ParameterDef(None),
     "p" :> ParameterDef(Some("d")),
     ("p" :> ParameterDef(None)) @@ ("q" :> ParameterDef(Some("d")))}

ParameterMapChoices ==
    {EmptyMap, "p" :> "v1", ("p" :> "v2") @@ ("q" :> "v1"), "u" :> "v1"}

ParameterRecipeNames == {<<"x">>, <<"y">>, <<"a", "x">>, <<"core", "x">>, <<"z">>}

\* config.parameters with at most two entries
ParameterConfigs ==
    UNION {[S -> ParameterMapChoices] :
              S \in {T \in SUBSET ParameterRecipeNames : Cardinality(T) <= 2}}

\* declared parameters with and without defaults, configured parameters that
\* are declared, undeclared, for unscheduled recipes and under two names
ParameterInputs ==
    {[dirs |-> SchedulerDirs(RecipeFile("x", Some(TRUE), 0, depx, px),
                             RecipeFile("y", dy, 0, <<>>, "p" :> ParameterDef(Some("d"))),
                             RecipeFile("x", None, 0, <<>>, pa),
                             RecipeFile("z", None, 0, <<>>, EmptyMap)),
      config |-> [exclude |-> {}, recipes |-> <<>>, parameters |-> ps]] :
        depx \in {<<>>, <<<<"a", "x">>>>},
        dy \in Flags,
        px \in ParameterDefChoices,
        pa \in {"p" :> ParameterDef(Some("d")), "p" :> ParameterDef(None)},
        ps \in ParameterConfigs}

Priorities == {MinPriority, 0, 1}

\* every combination of priorities over schedules of one to four recipes
PriorityInputs ==
    {[dirs |-> SchedulerDirs(RecipeFile("x", Some(TRUE), prx, depx, EmptyMap),
                             RecipeFile("y", dy, pry, <<>>, EmptyMap),
                             RecipeFile("x", None, pra, depa, EmptyMap),
                             RecipeFile("z", None, prz, <<>>, EmptyMap)),
      config |-> [exclude |-> {}, recipes |-> <<>>, parameters |-> EmptyMap]] :
        prx \in Priorities, pry \in Priorities, pra \in Priorities,
        prz \in Priorities,
        dy \in Flags,
        depx \in {<<>>, <<<<"a", "x">>>>},
        depa \in {<<>>, <<<<"c", "z">>>>}}

\* the state in which recipe_schedule is entered: the library is loaded
Init ==
    /\ \E input \in ClosureInputs \cup ParameterInputs \cup PriorityInputs :
          /\ dirs = input.dirs
          /\ config = input.config
    /\ repos = SchedulerRepositories
    /\ lib = LibraryLoad(repos, dirs)
    /\ call = NoCall
    /\ pc = "exclude"
    /\ excluded = {}
    /\ stack = <<>>
    /\ visited = {}
    /\ parameters = EmptyMap
    /\ recipes = <<>>
    /\ hist = [order |-> <<>>, pushes |-> <<>>]
    /\ ApplyIdle
    /\ ProjectIdle
    /\ RunIdle

-----------------------------------------------------------------------------
(* recipe_schedule *)

\* `-priority` where overflow wraps (a build without overflow checks)
WrappingNeg(p) ==
    (((-p) + 2 ^ (PriorityBits - 1)) % (2 ^ PriorityBits)) - 2 ^ (PriorityBits - 1)

\* `-priority` overflows
NegOverflows(p) == p = MinPriority

\* Option<bool>::unwrap_or_default
UnwrapOrDefault(o) == IF o.some THEN o.v ELSE FALSE

Range(seq) == {seq[i] : i \in 1 .. Len(seq)}

\* the sequence without repeated elements, in order of first occurrence
RECURSIVE Dedup(_)
Dedup(seq) ==
    IF seq = <<>> THEN <<>>
    ELSE LET init == Dedup(SubSeq(seq, 1, Len(seq) - 1))
             last == seq[Len(seq)]
         IN IF last \in Range(init) THEN init ELSE Append(init, last)

\* library.recipes.iter().filter_map(...): the default, non-excluded recipes
\* in arena order
RECURSIVE DefaultRecipes(_, _, _)
DefaultRecipes(library, excl, idx) ==
    IF idx > Len(library.recipes) THEN <<>>
    ELSE LET is_default == UnwrapOrDefault(library.recipes[idx].info.default)
             is_excluded == idx \in excl
         IN (IF is_default /\ ~is_excluded THEN <<idx>> ELSE <<>>)
                \o DefaultRecipes(library, excl, idx + 1)

\* faulty variant: a dependency is marked visited but never pushed, so its own
\* dependencies are not expanded
RECURSIVE ExpandDependenciesNoPush(_, _, _, _)
ExpandDependenciesNoPush(library, repository, names, st) ==
    IF names = <<>> \/ ~st.ok THEN st
    ELSE LET dependency_idx == Lookup(library, repository, Head(names))
         IN IF ~dependency_idx.some
            THEN [st EXCEPT !.ok = FALSE]
            ELSE ExpandDependenciesNoPush(library, repository, Tail(names),
                    IF dependency_idx.v \notin st.visited
                    THEN [st EXCEPT !.visited = @ \cup {dependency_idx.v},
                                    !.order = Append(@, dependency_idx.v)]
                    ELSE st)

\* faulty variant: an excluded recipe is not taken as a dependency either
RECURSIVE ExpandDependenciesSkipExcluded(_, _, _, _)
ExpandDependenciesSkipExcluded(library, repository, names, st) ==
    IF names = <<>> \/ ~st.ok THEN st
    ELSE LET dependency_idx == Lookup(library, repository, Head(names))
         IN IF ~dependency_idx.some
            THEN [st EXCEPT !.ok = FALSE]
            ELSE ExpandDependenciesSkipExcluded(library, repository, Tail(names),
                    IF dependency_idx.v \notin st.visited
                            /\ dependency_idx.v \notin excluded
                    THEN [st EXCEPT !.visited = @ \cup {dependency_idx.v},
                                    !.stack = Append(@, dependency_idx.v),
                                    !.order = Append(@, dependency_idx.v),
                                    !.pushes = Append(@, dependency_idx.v)]
                    ELSE st)

\* faulty variant: a dependency name that does not resolve is passed over
RECURSIVE ExpandDependenciesSkipUnresolved(_, _, _, _)
ExpandDependenciesSkipUnresolved(library, repository, names, st) ==
    IF names = <<>> \/ ~st.ok THEN st
    ELSE LET dependency_idx == Lookup(library, repository, Head(names))
         IN ExpandDependenciesSkipUnresolved(library, repository, Tail(names),
                IF dependency_idx.some /\ dependency_idx.v \notin st.visited
                THEN [st EXCEPT !.visited = @ \cup {dependency_idx.v},
                                !.stack = Append(@, dependency_idx.v),
                                !.order = Append(@, dependency_idx.v),
                                !.pushes = Append(@, dependency_idx.v)]
                ELSE st)

\* faulty variant: a dependency is pushed whether or not it was visited
RECURSIVE ExpandDependenciesAlwaysPush(_, _, _, _)
ExpandDependenciesAlwaysPush(library, repository, names, st) ==
    IF names = <<>> \/ ~st.ok THEN st
    ELSE LET dependency_idx == Lookup(library, repository, Head(names))
         IN IF ~dependency_idx.some
            THEN [st EXCEPT !.ok = FALSE]
            ELSE ExpandDependenciesAlwaysPush(library, repository, Tail(names),
                    [st EXCEPT !.visited = @ \cup {dependency_idx.v},
                               !.stack = Append(@, dependency_idx.v),
                               !.order = IF dependency_idx.v \in Range(@) THEN @
                                         ELSE Append(@, dependency_idx.v),
                               !.pushes = Append(@, dependency_idx.v)])

\* faulty variant: every dependency name is resolved from the root repository
RECURSIVE ExpandDependenciesFromRoot(_, _, _, _)
ExpandDependenciesFromRoot(library, repository, names, st) ==
    IF names = <<>> \/ ~st.ok THEN st
    ELSE LET dependency_idx ==
                 Lookup(library, library.repositories.root_repository, Head(names))
         IN IF ~dependency_idx.some
            THEN [st EXCEPT !.ok = FALSE]
            ELSE ExpandDependenciesFromRoot(library, repository, Tail(names),
                    IF dependency_idx.v \notin st.visited
                    THEN [st EXCEPT !.visited = @ \cup {dependency_idx.v},
                                    !.stack = Append(@, dependency_idx.v),
                                    !.order = Append(@, dependency_idx.v),
                                    !.pushes = Append(@, dependency_idx.v)]
                    ELSE st)

\* the `for name in &recipe.info.dependencies` loop for one popped recipe.
\* st = [ok, stack, visited, order, pushes]; ok turns FALSE at the `?`.
RECURSIVE ExpandDependencies(_, _, _, _)
ExpandDependencies(library, repository, names, st) ==
    IF names = <<>> \/ ~st.ok THEN st
    ELSE LET dependency_idx == Lookup(library, repository, Head(names))
         IN IF ~dependency_idx.some
            THEN [st EXCEPT !.ok = FALSE]
            ELSE ExpandDependencies(library, repository, Tail(names),
                    IF dependency_idx.v \notin st.visited
                    THEN [st EXCEPT !.visited = @ \cup {dependency_idx.v},
                                    !.stack = Append(@, dependency_idx.v),
                                    !.order = Append(@, dependency_idx.v),
                                    !.pushes = Append(@, dependency_idx.v)]
                    ELSE st)

\* the closure mapping one visited index to its job; None models `bail!`
MakeJob(library, params_by_idx, idx) ==
    LET recipe == library.recipes[idx]
        recipe_params == Get(params_by_idx, idx)
        declared == recipe.info.parameters
        unknown == IF recipe_params.some
                   THEN DOMAIN recipe_params.v \ DOMAIN declared
                   ELSE {}
        configured(name) == recipe_params.some /\ name \in DOMAIN recipe_params.v
        missing == {name \in DOMAIN declared :
                        ~configured(name) /\ ~declared[name].default.some}
    IN IF unknown # {} \/ missing # {} THEN None
       ELSE Some([recipe |-> recipe,
                  parameters |->
                      [name \in DOMAIN declared |->
                          IF configured(name) THEN recipe_params.v[name]
                          ELSE declared[name].default.v]])

\* the key of `sort_by_key(|job| -job.recipe.info.priority)`
SortKey(job) == WrappingNeg(job.recipe.info.priority)

\* slice::sort_by_key: a stable sort, here by insertion from the left
RECURSIVE SortByKey(_)
SortByKey(list) ==
    IF list = <<>> THEN <<>>
    ELSE LET sorted == SortByKey(SubSeq(list, 1, Len(list) - 1))
             job == list[Len(list)]
             before == {i \in 1 .. Len(sorted) : SortKey(sorted[i]) <= SortKey(job)}
             n == Cardinality(before)
         IN SubSeq(sorted, 1, n) \o <<job>> \o SubSeq(sorted, n + 1, Len(sorted))

\* the orders in which a HashSet's into_iter may yield its elements
Orders(set) ==
    {o \in [1 .. Cardinality(set) -> set] :
        \A i, j \in 1 .. Cardinality(set) : i # j => o[i] # o[j]}

Root == lib.v.repositories.root_repository

\* lines 54-62: `excluded`
ResolveExcluded ==
    /\ pc = "exclude"
    /\ LET found == [name \in config.exclude |-> Lookup(lib.v, Root, name)]
       IN IF \E name \in config.exclude : ~found[name].some
          THEN /\ pc' = "failed"
               /\ UNCHANGED excluded
          ELSE /\ pc' = "seed"
               /\ excluded' = {found[name].v : name \in config.exclude}
    /\ UNCHANGED <<libVars, applyVars, projVars, runVars, config, stack, visited, parameters,
                   recipes, hist>>

\* lines 63-87: `stack` and `visited`
SeedStack ==
    /\ pc = "seed"
    /\ LET found == [i \in 1 .. Len(config.recipes) |->
                        Lookup(lib.v, Root, config.recipes[i])]
           seeds == DefaultRecipes(lib.v, excluded, 1)
                        \o [i \in 1 .. Len(config.recipes) |-> found[i].v]
       IN IF \E i \in 1 .. Len(config.recipes) : ~found[i].some
          THEN /\ pc' = "failed"
               /\ UNCHANGED <<stack, visited, hist>>
          ELSE /\ pc' = "expand"
               /\ stack' = seeds
               /\ visited' = Range(seeds)
               /\ hist' = [order |-> Dedup(seeds), pushes |-> <<>>]
    /\ UNCHANGED <<libVars, applyVars, projVars, runVars, config, excluded, parameters, recipes>>

\* lines 88-98: one iteration of `while let Some(idx) = stack.pop()`
ExpandStep ==
    /\ pc = "expand"
    /\ stack # <<>>
    /\ LET idx == stack[Len(stack)]
           recipe == lib.v.recipes[idx]
           st == ExpandDependencies(lib.v, recipe.repository,
                    recipe.info.dependencies,
                    [ok |-> TRUE, stack |-> SubSeq(stack, 1, Len(stack) - 1),
                     visited |-> visited, order |-> hist.order,
                     pushes |-> hist.pushes])
       IN /\ pc' = IF st.ok THEN "expand" ELSE "failed"
          /\ stack' = st.stack
          /\ visited' = st.visited
          /\ hist' = [order |-> st.order, pushes |-> st.pushes]
    /\ UNCHANGED <<libVars, applyVars, projVars, runVars, config, excluded, parameters, recipes>>

\* lines 99-110: `parameters`, keyed by recipe index.  When several
\* configured names resolve to one index, the map keeps the entry inserted
\* last, which depends on the iteration order of config.parameters.
ResolveParameters ==
    /\ pc = "expand"
    /\ stack = <<>>
    /\ LET names == DOMAIN config.parameters
           found == [name \in names |-> Lookup(lib.v, Root, name)]
           keys == {found[name].v : name \in {n \in names : found[n].some}}
       IN IF \E name \in names : ~found[name].some
          THEN /\ pc' = "failed"
               /\ UNCHANGED parameters
          ELSE /\ pc' = "jobs"
               /\ \E kept \in [keys -> names] :
                     /\ \A idx \in keys : found[kept[idx]] = Some(idx)
                     /\ parameters' = [idx \in keys |-> config.parameters[kept[idx]]]
    /\ UNCHANGED <<libVars, applyVars, projVars, runVars, config, excluded, stack, visited,
                   recipes, hist>>

\* lines 111-142: one job per visited index, in the set's iteration order
BuildJobs ==
    /\ pc = "jobs"
    /\ LET job == [idx \in visited |-> MakeJob(lib.v, parameters, idx)]
       IN IF \E idx \in visited : ~job[idx].some
          THEN /\ pc' = "failed"
               /\ UNCHANGED recipes
          ELSE /\ pc' = "sort"
               /\ \E order \in Orders(visited) :
                     recipes' = [i \in 1 .. Len(order) |-> job[order[i]].v]
    /\ UNCHANGED <<libVars, applyVars, projVars, runVars, config, excluded, stack, visited,
                   parameters, hist>>

\* lines 143-145: the sort, and the return.  The key of every element is
\* computed when there are at least two; negating the least priority
\* overflows, which panics in a build with overflow checks and wraps in one
\* without.
SortJobs ==
    /\ pc = "sort"
    /\ LET overflow == /\ Len(recipes) >= 2
                       /\ \E i \in 1 .. Len(recipes) :
                             NegOverflows(recipes[i].recipe.info.priority)
       IN \/ /\ overflow
             /\ pc' = "panicked"
             /\ UNCHANGED recipes
          \/ /\ pc' = "done"
             /\ recipes' = SortByKey(recipes)
    /\ UNCHANGED <<libVars, applyVars, projVars, runVars, config, excluded, stack, visited,
                   parameters, hist>>

Next == ResolveExcluded \/ SeedStack \/ ExpandStep \/ ResolveParameters
            \/ BuildJobs \/ SortJobs
Spec == Init /\ [][Next]_vars

-----------------------------------------------------------------------------
(* apply_recipes *)

\* greatest number of jobs and of steps of a recipe
MaxJobs == 2

MaxSteps == 2

\* the six mounts of the setup, in the order of their `let`s
SetupMounts ==
    <<[var |-> "_mounted_dev", source |-> "/dev", target |-> "dev"],
      [var |-> "_mounted_dev_pts", source |-> "/dev/pts", target |-> "dev/pts"],
      [var |-> "_mounted_sys", source |-> "/sys", target |-> "sys"],
      [var |-> "_mounted_proc", source |-> "proc", target |-> "proc"],
      [var |-> "_mounted_run", source |-> "tmpfs", target |-> "run"],
      [var |-> "_mounted_tmp", source |-> "tmpfs", target |-> "tmp"]>>

\* root_dir_path.join("run/rugpi/bakery/recipe")
BakeryRecipePath == "run/rugpi/bakery/recipe"

\* str::to_uppercase on the parameter names of the model
ToUppercase(name) ==
    CASE name = "p" -> "P"
      [] name = "q" -> "Q"
      [] OTHER -> name

\* a successful Mounted::bind / Mounted::mount_fs of `source` at `target`:
\* the mount is made and a guard for it is alive; id is the position of the
\* mount among the events
Mount(var, source, target) ==
    /\ events' = Append(events, [op |-> "mount", source |-> source,
                                  target |-> target])
    /\ guards' = Append(guards, [var |-> var, target |-> target,
                                  id |-> Len(events) + 1])

\* Drop for Mounted: the guard at position g of `guards` unmounts its
\* target and is gone; `failed` tells whether the unmount reported a
\* failure, which a drop has no way to return
Unmount(g) ==
    /\ events' = Append(events, [op |-> "umount", target |-> guards[g].target,
                                  id |-> guards[g].id,
                                  failed |-> guards[g].target \in busy])
    /\ guards' = SubSeq(guards, 1, g - 1) \o SubSeq(guards, g + 1, Len(guards))

\* faulty variant: the guards are dropped in the order of their declaration
DropDeclaredFirst(live) == 1

\* the guard dropped next when the function's scope is left: locals are
\* dropped in reverse order of declaration
DropNext(live) == Len(live)

Err(e) == [state |-> "err", error |-> e]

Ok == [state |-> "ok"]

\* faulty variant: the parameter names are not uppercased
RECURSIVE SetParametersAsSpelled(_, _, _)
SetParametersAsSpelled(env, params, order) ==
    IF order = <<>> THEN env
    ELSE SetParametersAsSpelled(
            Insert(env, <<"RECIPE_PARAM_", Head(order)>>, <<params[Head(order)]>>),
            params, Tail(order))

\* the environment of a step: `vars!{...}` and then one vars.set per
\* parameter, in the iteration order `order` of job.parameters
RECURSIVE SetParameters(_, _, _)
SetParameters(env, params, order) ==
    IF order = <<>> THEN env
    ELSE SetParameters(
            Insert(env, <<"RECIPE_PARAM_", ToUppercase(Head(order))>>,
                   <<params[Head(order)]>>),
            params, Tail(order))

StepCommand(job, step, order) ==
    LET recipe == job.recipe
    IN CASE step.kind.tag = "Packages" ->
              [chroot |-> TRUE,
               argv |-> <<"apt-get", "install", "-y">> \o step.kind.packages,
               vars |-> <<"DEBIAN_FRONTEND">> :> <<"noninteractive">>]
         [] step.kind.tag = "Install" ->
              LET script == <<"/run/rugpi/bakery/recipe/steps/", step.filename>>
              IN [chroot |-> TRUE,
                  argv |-> script,
                  vars |-> SetParameters(
                      (<<"DEBIAN_FRONTEND">> :> <<"noninteractive">>)
                          @@ (<<"RUGPI_ROOT_DIR">> :> <<"/">>)
                          @@ (<<"RUGPI_ARCH">> :> <<"arm64">>)
                          @@ (<<"RECIPE_DIR">> :> <<"/run/rugpi/bakery/recipe/">>)
                          @@ (<<"RECIPE_STEP_PATH">> :> script),
                      job.parameters, order)]
         [] step.kind.tag = "Run" ->
              LET script == <<recipe.path, "steps", step.filename>>
              IN [chroot |-> FALSE,
                  argv |-> script,
                  vars |-> SetParameters(
                      (<<"DEBIAN_FRONTEND">> :> <<"noninteractive">>)
                          @@ (<<"RUGPI_ROOT_DIR">> :> <<"root_dir_path">>)
                          @@ (<<"RUGPI_ARCH">> :> <<"arm64">>)
                          @@ (<<"RECIPE_DIR">> :> <<recipe.path>>)
                          @@ (<<"RECIPE_STEP_PATH">> :> script),
                      job.parameters, order)]

\* lines 149-154: the next setup mount, or its failure
SetupMount ==
    /\ pc = "setup"
    /\ LET m == SetupMounts[Len(guards) + 1]
       IN \/ /\ Mount(m.var, m.source, m.target)
             /\ pc' = IF Len(guards) + 1 = Len(SetupMounts) THEN "mkdir" ELSE "setup"
             /\ UNCHANGED result
          \/ /\ result' = Err(<<"mount", m.target>>)
             /\ events' = Append(events, [op |-> "mount_failed",
                                          target |-> m.target])
             /\ pc' = "unwind"
             /\ UNCHANGED guards
    /\ UNCHANGED <<libVars, schedVars, projVars, runVars, busy, jobs, job_idx, step_idx>>

\* lines 156-157: fs::create_dir_all(&bakery_recipe_path)?
CreateRecipeDir ==
    /\ pc = "mkdir"
    /\ \/ /\ events' = Append(events, [op |-> "create_dir_all",
                                       target |-> BakeryRecipePath])
          /\ pc' = "loop"
          /\ job_idx' = 1
          /\ UNCHANGED result
       \/ /\ result' = Err(<<"create_dir_all", BakeryRecipePath>>)
          /\ events' = Append(events, [op |-> "create_dir_all_failed",
                                       target |-> BakeryRecipePath])
          /\ pc' = "unwind"
          /\ UNCHANGED job_idx
    /\ UNCHANGED <<libVars, schedVars, projVars, runVars, busy, jobs, step_idx, guards>>

\* lines 159-172: the next job: bind its recipe directory, or fail to
BindRecipe ==
    /\ pc = "loop"
    /\ job_idx <= Len(jobs)
    /\ \/ /\ Mount("_mounted_recipe", jobs[job_idx].recipe.path, BakeryRecipePath)
          /\ pc' = "steps"
          /\ step_idx' = 1
          /\ UNCHANGED result
       \/ /\ result' = Err(<<"mount", BakeryRecipePath>>)
          /\ events' = Append(events, [op |-> "mount_failed",
                                       target |-> BakeryRecipePath])
          /\ pc' = "unwind"
          /\ UNCHANGED <<guards, step_idx>>
    /\ UNCHANGED <<libVars, schedVars, projVars, runVars, busy, jobs, job_idx>>

\* faulty variant: a failed step is reported and the loop goes on
RunStepIgnoringFailure ==
    /\ pc = "steps"
    /\ step_idx <= Len(jobs[job_idx].recipe.steps)
    /\ \E order \in Orders(DOMAIN jobs[job_idx].parameters), failed \in BOOLEAN :
          events' = Append(events,
                [op |-> "step", job |-> job_idx, step |-> step_idx,
                 failed |-> failed,
                 command |-> StepCommand(jobs[job_idx],
                                jobs[job_idx].recipe.steps[step_idx], order)])
    /\ step_idx' = step_idx + 1
    /\ UNCHANGED <<libVars, schedVars, projVars, runVars, busy, jobs, job_idx, guards, result, pc>>

\* lines 174-213: the next step of the current job runs, and succeeds or fails
RunStep ==
    /\ pc = "steps"
    /\ step_idx <= Len(jobs[job_idx].recipe.steps)
    /\ \E order \in Orders(DOMAIN jobs[job_idx].parameters), failed \in BOOLEAN :
          /\ events' = Append(events,
                [op |-> "step", job |-> job_idx, step |-> step_idx,
                 failed |-> failed,
                 command |-> StepCommand(jobs[job_idx],
                                jobs[job_idx].recipe.steps[step_idx], order)])
          /\ IF failed
             THEN /\ result' = Err(<<"step", jobs[job_idx].recipe.name,
                                     jobs[job_idx].recipe.steps[step_idx].filename>>)
                  /\ pc' = "unwind"
                  /\ UNCHANGED step_idx
             ELSE /\ step_idx' = step_idx + 1
                  /\ UNCHANGED <<result, pc>>
    /\ UNCHANGED <<libVars, schedVars, projVars, runVars, busy, jobs, job_idx, guards>>

\* faulty variant: the binding of the recipe directory outlives the loop body
EndJobKeepingBinding ==
    /\ pc = "steps"
    /\ step_idx > Len(jobs[job_idx].recipe.steps)
    /\ job_idx' = job_idx + 1
    /\ pc' = "loop"
    /\ UNCHANGED <<libVars, schedVars, projVars, runVars, busy, jobs, step_idx, result, guards,
                   events>>

\* line 214: the end of the loop body drops _mounted_recipe
EndJob ==
    /\ pc = "steps"
    /\ step_idx > Len(jobs[job_idx].recipe.steps)
    /\ Unmount(Len(guards))
    /\ job_idx' = job_idx + 1
    /\ pc' = "loop"
    /\ UNCHANGED <<libVars, schedVars, projVars, runVars, busy, jobs, step_idx, result>>

\* line 215: Ok(()) after the last job
Finish ==
    /\ pc = "loop"
    /\ job_idx > Len(jobs)
    /\ result' = Ok
    /\ pc' = "unwind"
    /\ UNCHANGED <<libVars, schedVars, projVars, runVars, busy, jobs, job_idx, step_idx, guards, events>>

\* faulty variant: an unmount that fails while unwinding becomes the result
DropGuardReportingFailure ==
    /\ pc = "unwind"
    /\ guards # <<>>
    /\ Unmount(DropNext(guards))
    /\ result' = IF guards[DropNext(guards)].target \in busy
                 THEN Err(<<"umount", guards[DropNext(guards)].target>>)
                 ELSE result
    /\ UNCHANGED <<libVars, schedVars, projVars, runVars, busy, jobs, job_idx, step_idx, pc>>

\* leaving the function, by `?` or at its end: the live guards are dropped
DropGuard ==
    /\ pc = "unwind"
    /\ guards # <<>>
    /\ Unmount(DropNext(guards))
    /\ UNCHANGED <<libVars, schedVars, projVars, runVars, busy, jobs, job_idx, step_idx, result, pc>>

\* the caller has the result
Return ==
    /\ pc = "unwind"
    /\ guards = <<>>
    /\ pc' = "returned"
    /\ UNCHANGED <<libVars, schedVars, applyVars, projVars, runVars>>

NextApply ==
    SetupMount \/ CreateRecipeDir \/ BindRecipe \/ RunStep \/ EndJob \/ Finish
        \/ DropGuard \/ Return

(* Inputs of the apply specification *)

JobIds == <<"a", "b", "c", "d">>

StepFiles == <<"01", "02", "03", "04">>

StepKinds ==
    <<[tag |-> "Packages", packages |-> <<"pkg">>], [tag |-> "Install"],
      [tag |-> "Run"]>>

JobParameterChoices ==
    {EmptyMap, "p" :> "v1", ("p" :> "v1") @@ ("P" :> "v2")}

\* job j of the list: `count` steps whose kinds rotate from `rot`
ApplyJob(j, count, rot, params) ==
    [recipe |-> [name |-> JobIds[j],
                 path |-> JobIds[j],
                 steps |-> [i \in 1 .. count |->
                              [filename |-> StepFiles[i],
                               kind |-> StepKinds[((i + j + rot) % 3) + 1]]]],
     parameters |-> params]

\* the sets of targets whose unmount fails, when some do
BusyChoices ==
    {{"tmp"}, {BakeryRecipePath}, {"dev", "run", BakeryRecipePath}}

\* the job lists with `rot` and `params`
JobLists(rot, params) ==
    UNION {{[j \in 1 .. n |-> ApplyJob(j, counts[j], rot, params)] :
               counts \in [1 .. n -> 0 .. MaxSteps]} : n \in 0 .. MaxJobs}

\* every job list where all unmounts succeed, and the job lists without
\* parameters where the unmounts of some targets fail
ApplyInputs ==
    {[jobs |-> list, busy |-> {}] :
        list \in UNION {JobLists(rot, params) :
                           rot \in 0 .. 2, params \in JobParameterChoices}}
    \cup {[jobs |-> list, busy |-> b] :
             list \in JobLists(0, EmptyMap), b \in BusyChoices}

InitApply ==
    /\ \E input \in ApplyInputs : jobs = input.jobs /\ busy = input.busy
    /\ job_idx = 0
    /\ step_idx = 0
    /\ guards = <<>>
    /\ events = <<>>
    /\ result = [state |-> "none"]
    /\ pc = "setup"
    /\ repos = SchedulerRepositories
    /\ dirs = [recipes |-> [i \in RepositoryIdx |-> <<>>],
               layers |-> [i \in RepositoryIdx |-> <<>>]]
    /\ lib = None
    /\ call = NoCall
    /\ SchedulerIdle
    /\ ProjectIdle
    /\ RunIdle

SpecApply == InitApply /\ [][NextApply]_vars

-----------------------------------------------------------------------------
(* run: the customize task (tasks/customize.rs, lines 33-46) *)

\* a recipe directory with `count` steps at `path`
RunRecipe(name, path, default, priority, dependencies, count) ==
    RecipeFile(name, default, priority, dependencies, EmptyMap)
        @@ [path |-> path,
            steps |-> [i \in 1 .. count |->
                         [filename |-> StepFiles[i],
                          kind |-> StepKinds[(i % 3) + 1]]]]

\* a layer file whose architecture Architecture::from_str rejects
UnknownArchitectureLayer == LayerFile(<<"l", "riscv">>, 1, "l.riscv")

\* projects whose library loads or does not, whose schedule resolves or
\* does not (in `exclude`, in `recipes`, in a dependency) or meets the least
\* priority, with one to three recipes to apply, and with and without a
\* target whose unmount fails
RunInputs ==
    {[dirs |-> [SchedulerDirs(RunRecipe("x", "r0/x", Some(TRUE), 0, depx, 2),
                              RunRecipe("y", "r0/y", dy, pry, <<>>, 1),
                              RunRecipe("x", "r1/x", None, 0, <<>>, 1),
                              RunRecipe("z", "r2/z", None, 0, <<>>, 0))
                    EXCEPT !.layers[0] = IF bad_layer
                                         THEN <<UnknownArchitectureLayer>>
                                         ELSE <<>>],
      config |-> [exclude |-> e, recipes |-> r, parameters |-> EmptyMap],
      busy |-> b] :
        depx \in {<<>>, <<<<"a", "x">>>>, <<<<"z">>>>},
        dy \in {Some(TRUE), None},
        pry \in {0, MinPriority},
        bad_layer \in BOOLEAN,
        e \in {{}, {<<"z">>}},
        r \in {<<>>, <<<<"c", "z">>>>},
        b \in {{}, {"tmp"}}}

\* line 34: project.load_library()?
RunLoadLibrary ==
    /\ pc = "run"
    /\ lib' = LibraryLoad(repos, dirs)
    /\ IF lib'.some
       THEN pc' = "exclude" /\ UNCHANGED run_result
       ELSE pc' = "run_returned" /\ run_result' = Err(<<"load_library">>)
    /\ UNCHANGED <<repos, dirs, call, schedVars, applyVars, projVars>>

\* line 36: the `?` after recipe_schedule
RunScheduleFailed ==
    /\ pc = "failed"
    /\ run_result' = Err(<<"recipe_schedule">>)
    /\ pc' = "run_returned"
    /\ UNCHANGED <<libVars, schedVars, applyVars, projVars>>

\* line 38: tempdir()?, after recipe_schedule has returned the jobs
RunTempdir ==
    /\ pc = "done"
    /\ \/ /\ events' = Append(events, [op |-> "tempdir"])
          /\ pc' = "extract"
          /\ UNCHANGED run_result
       \/ /\ run_result' = Err(<<"tempdir">>)
          /\ pc' = "run_returned"
          /\ UNCHANGED events
    /\ UNCHANGED <<libVars, schedVars, projVars, busy, jobs, job_idx, step_idx, guards,
                   result>>

\* lines 40-42: tar -x into the temporary directory and, when that
\* succeeded, the call of apply_recipes with the jobs; when it failed,
\* root_dir is dropped on the way out
RunExtract ==
    /\ pc = "extract"
    /\ \/ /\ events' = Append(events, [op |-> "extract"])
          /\ jobs' = recipes
          /\ pc' = "setup"
          /\ UNCHANGED run_result
       \/ /\ events' = Append(events, [op |-> "remove_tempdir"])
          /\ run_result' = Err(<<"tar", "-x">>)
          /\ pc' = "run_returned"
          /\ UNCHANGED jobs
    /\ UNCHANGED <<libVars, schedVars, projVars, busy, job_idx, step_idx, guards, result>>

\* faulty variant: the tree is packed whatever apply_recipes returned
RunPackAlways ==
    /\ pc = "returned"
    /\ \E failed \in BOOLEAN :
          /\ events' = events \o <<[op |-> "pack", failed |-> failed],
                                   [op |-> "remove_tempdir"]>>
          /\ run_result' = IF failed THEN Err(<<"tar", "-c">>) ELSE Ok
    /\ pc' = "run_returned"
    /\ UNCHANGED <<libVars, schedVars, projVars, busy, jobs, job_idx, step_idx, guards,
                   result>>

\* lines 43-45: apply_recipes returned Ok: tar -c, which succeeds or fails,
\* and the return, on which root_dir is dropped
RunPack ==
    /\ pc = "returned"
    /\ result = Ok
    /\ \E failed \in BOOLEAN :
          /\ events' = events \o <<[op |-> "pack", failed |-> failed],
                                   [op |-> "remove_tempdir"]>>
          /\ run_result' = IF failed THEN Err(<<"tar", "-c">>) ELSE Ok
    /\ pc' = "run_returned"
    /\ UNCHANGED <<libVars, schedVars, projVars, busy, jobs, job_idx, step_idx, guards,
                   result>>

\* line 42: the `?` after apply_recipes; root_dir is dropped on the way out
RunApplyFailed ==
    /\ pc = "returned"
    /\ result.state = "err"
    /\ events' = Append(events, [op |-> "remove_tempdir"])
    /\ run_result' = result
    /\ pc' = "run_returned"
    /\ UNCHANGED <<libVars, schedVars, projVars, busy, jobs, job_idx, step_idx, guards,
                   result>>

NextRun ==
    RunLoadLibrary \/ Next \/ RunScheduleFailed \/ RunTempdir \/ RunExtract
        \/ NextApply \/ RunPack \/ RunApplyFailed

\* the customize task is entered: nothing is loaded, scheduled or mounted
InitRun ==
    /\ \E input \in RunInputs :
          /\ dirs = input.dirs
          /\ config = input.config
          /\ busy = input.busy
    /\ repos = SchedulerRepositories
    /\ lib = None
    /\ call = NoCall
    /\ pc = "run"
    /\ excluded = {}
    /\ stack = <<>>
    /\ visited = {}
    /\ parameters = EmptyMap
    /\ recipes = <<>>
    /\ hist = [order |-> <<>>, pushes |-> <<>>]
    /\ jobs = <<>>
    /\ job_idx = 0
    /\ step_idx = 0
    /\ guards = <<>>
    /\ events = <<>>
    /\ result = [state |-> "none"]
    /\ ProjectIdle
    /\ RunIdle

SpecRun == InitRun /\ [][NextRun]_vars

-----------------------------------------------------------------------------
(* Project: the lazily loaded repositories and library (project/mod.rs) *)

\* greatest number of calls of repositories() and library() on one Project
MaxCalls == 4

OkValue(v) == [state |-> "ok", v |-> v]

\* faulty variant: a failed initialisation fills the cell with a placeholder
TryGetOrInitCachingFailure(cell, init) ==
    IF cell.some THEN [cell |-> cell, ret |-> OkValue(cell.v), ran |-> FALSE]
    ELSE IF init.state = "err"
         THEN [cell |-> Some([id |-> 0]), ret |-> init, ran |-> TRUE]
         ELSE [cell |-> Some(init.v), ret |-> OkValue(init.v), ran |-> TRUE]

\* faulty variant: the closure is run and its value stored by every call
TryGetOrInitAlways(cell, init) ==
    IF init.state = "err" THEN [cell |-> cell, ret |-> init, ran |-> TRUE]
    ELSE [cell |-> Some(init.v), ret |-> OkValue(init.v), ran |-> TRUE]

\* OnceCellExt::try_get_or_init.  `init` is what the closure returns when it
\* is run; `ran` tells whether it was run, `cell` is the cell afterwards.
TryGetOrInit(cell, init) ==
    IF cell.some THEN [cell |-> cell, ret |-> OkValue(cell.v), ran |-> FALSE]
    ELSE IF init.state = "err" THEN [cell |-> cell, ret |-> init, ran |-> TRUE]
    ELSE LET set == IF cell.some THEN cell ELSE Some(init.v)
         IN [cell |-> set, ret |-> OkValue(set.v), ran |-> TRUE]

\* Project::repositories on the project p = [lazy, loads].  The loader reads
\* the file system: when it is invoked it fails or (`ok`) yields a value of
\* its own, named by the number of the invocation.
Repositories(p, ok) ==
    LET init == IF ok THEN OkValue([id |-> p.loads.repositories + 1])
                ELSE Err(<<"ProjectRepositories::load">>)
        t == TryGetOrInit(p.lazy.repositories, init)
    IN [lazy |-> [p.lazy EXCEPT !.repositories = t.cell],
        loads |-> IF t.ran THEN [p.loads EXCEPT !.repositories = @ + 1]
                  ELSE p.loads,
        ret |-> t.ret]

\* Project::library: the closure calls self.repositories()? and then
\* Library::load, which fails or (`ok_library`) yields a library of its own
\* built from the repositories it was given.
Library(p, ok_repositories, ok_library) ==
    LET r == Repositories(p, ok_repositories)
        reached == r.ret.state = "ok"
        init == IF ~reached THEN r.ret
                ELSE IF ok_library
                     THEN OkValue([id |-> p.loads.library + 1,
                                   repositories |-> r.ret.v])
                     ELSE Err(<<"Library::load">>)
        t == TryGetOrInit(p.lazy.library, init)
    IN IF t.ran
       THEN [lazy |-> [r.lazy EXCEPT !.library = t.cell],
             loads |-> IF reached THEN [r.loads EXCEPT !.library = @ + 1]
                       ELSE r.loads,
             ret |-> t.ret]
       ELSE [lazy |-> p.lazy, loads |-> p.loads, ret |-> t.ret]

\* a call of project.repositories()
CallRepositories ==
    /\ pc = "project"
    /\ Len(returns) < MaxCalls
    /\ \E ok \in BOOLEAN :
          LET r == Repositories([lazy |-> lazy, loads |-> loads], ok)
          IN /\ lazy' = r.lazy
             /\ loads' = r.loads
             /\ returns' = Append(returns, [fn |-> "repositories",
                                            result |-> r.ret, loads |-> r.loads])
    /\ UNCHANGED <<libVars, schedVars, applyVars, runVars, pc>>

\* a call of project.library()
CallLibrary ==
    /\ pc = "project"
    /\ Len(returns) < MaxCalls
    /\ \E ok_repositories \in BOOLEAN, ok_library \in BOOLEAN :
          LET r == Library([lazy |-> lazy, loads |-> loads],
                           ok_repositories, ok_library)
          IN /\ lazy' = r.lazy
             /\ loads' = r.loads
             /\ returns' = Append(returns, [fn |-> "library",
                                            result |-> r.ret, loads |-> r.loads])
    /\ UNCHANGED <<libVars, schedVars, applyVars, runVars, pc>>

NextProject == CallRepositories \/ CallLibrary

\* ProjectLoader::load: ProjectLazy::default(), both cells empty
InitProject ==
    /\ ProjectIdle
    /\ RunIdle
    /\ pc = "project"
    /\ repos = SchedulerRepositories
    /\ dirs = [recipes |-> [i \in RepositoryIdx |-> <<>>],
               layers |-> [i \in RepositoryIdx |-> <<>>]]
    /\ lib = None
    /\ call = NoCall
    /\ SchedulerIdle
    /\ ApplyIdle

SpecProject == InitProject /\ [][NextProject]_vars

-----------------------------------------------------------------------------
(* Claims about Library::lookup and Library::lookup_layer (SpecLookup) *)

\* the dependency map the calling repository of the last call declares
Declared == repos.repositories[call.repository].repositories

\* the arena indices of the recipes of repository `d` named `x`
RecipesNamed(d, x) ==
    {i \in 1 .. Len(lib.v.recipes) :
        lib.v.recipes[i].repository = d /\ lib.v.recipes[i].name = x}

\* C7: for a repository R that declares a dependency D (D not the literal
\* "core") and an X present in D's table, lookup(R, "D/X") returns X's index
\* in D's table, i.e. the arena index of D's recipe named X; lookup_layer
\* returns the entry of D's layer table in the same way.
C7_QualifiedLookup ==
    (pc = "called" /\ Len(call.name) = 2 /\ call.name[1] # "core"
        /\ call.name[1] \in DOMAIN Declared) =>
        LET D == Declared[call.name[1]]
            X == call.name[2]
        IN /\ call.fn = "lookup" =>
                /\ \A i \in RecipesNamed(D, X) : call.ret = Some(i)
                /\ X \in DOMAIN lib.v.recipe_tables[D] =>
                        call.ret = Some(lib.v.recipe_tables[D][X])
           /\ call.fn = "lookup_layer" =>
                (X \in DOMAIN lib.v.layer_tables[D] =>
                        call.ret = Some(lib.v.layer_tables[D][X]))

\* a qualified lookup through a declared dependency on another repository
\* found the recipe, although the caller has a recipe of the same name
C7_Witness ==
    /\ pc = "called" /\ call.fn = "lookup" /\ call.name = <<"d", "x">>
    /\ "d" \in DOMAIN Declared
    /\ Declared["d"] # call.repository
    /\ call.ret.some
    /\ RecipesNamed(call.repository, "x") # {}

\* C8: lookup(R, "core/X") is the lookup of X in the designated core
\* repository's table, whatever R declares, also when R declares a
\* dependency named "core" that is another repository.
C8_CoreLookup ==
    (pc = "called" /\ call.fn = "lookup" /\ Len(call.name) >= 2
        /\ call.name[1] = "core") =>
        LET found == IF Len(call.name) = 2
                     THEN RecipesNamed(repos.core_repository, call.name[2])
                     ELSE {}
        IN /\ \A i \in found : call.ret = Some(i)
           /\ found = {} => call.ret = None

\* R declares "core" as another repository, which has a recipe x of its own,
\* and the lookup still answered with the core repository's x
C8_Witness ==
    /\ pc = "called" /\ call.fn = "lookup" /\ call.name = <<"core", "x">>
    /\ "core" \in DOMAIN Declared
    /\ Declared["core"] # repos.core_repository
    /\ RecipesNamed(Declared["core"], "x") # {}
    /\ call.ret.some
    /\ lib.v.recipes[call.ret.v].repository = repos.core_repository

\* C9: for a name without a separator, lookup(R, X) is nothing or the index
\* of a recipe named X that R itself owns.
C9_UnqualifiedLookupIsLocal ==
    (pc = "called" /\ call.fn = "lookup" /\ Len(call.name) = 1) =>
        /\ call.ret.some =>
              /\ call.ret.v \in 1 .. Len(lib.v.recipes)
              /\ lib.v.recipes[call.ret.v].repository = call.repository
              /\ lib.v.recipes[call.ret.v].name = call.name[1]
        /\ RecipesNamed(call.repository, call.name[1]) = {} => call.ret = None

\* R has no recipe x, another repository has one, and the lookup found nothing
C9_Witness ==
    /\ pc = "called" /\ call.fn = "lookup" /\ call.name = <<"x">>
    /\ call.ret = None
    /\ \E d \in RepositoryIdx : d < call.repository /\ RecipesNamed(d, "x") # {}

\* the repositories other than the caller that declare a dependency `p`
\* on a repository holding a recipe `x`
OthersDeclaring(p, x) ==
    {i \in RepositoryIdx \ {call.repository} :
        /\ p \in DOMAIN repos.repositories[i].repositories
        /\ RecipesNamed(repos.repositories[i].repositories[p], x) # {}}

\* C19: a name with a prefix that is neither "core" nor a dependency the
\* calling repository declares is not found: lookup and lookup_layer return
\* None, a value and not an error, whatever the other repositories declare
\* under that prefix and hold under the rest of the name.
C19_UndeclaredPrefixIsNotFound ==
    (pc = "called" /\ Len(call.name) >= 2 /\ call.name[1] # "core"
        /\ call.name[1] \notin DOMAIN Declared) =>
        /\ call.fn \in {"lookup", "lookup_layer"}
        /\ call.ret = None

\* the caller declares no "d"; another repository declares "d" to be a
\* repository that holds a recipe x; lookup("d/x") by the caller found nothing
C19_Witness ==
    /\ pc = "called" /\ call.fn = "lookup" /\ call.name = <<"d", "x">>
    /\ "d" \notin DOMAIN Declared
    /\ OthersDeclaring("d", "x") # {}
    /\ call.ret = None

-----------------------------------------------------------------------------
(* Claims about recipe_schedule (Spec) *)

RecipeIdx == 1 .. Len(lib.v.recipes)

\* the arena index of a job's recipe
IdxOf(job) == CHOOSE i \in RecipeIdx : lib.v.recipes[i] = job.recipe

\* the indices of the returned jobs, in order
Scheduled == [i \in 1 .. Len(recipes) |-> IdxOf(recipes[i])]

\* the indices the names of `names` resolve to from the root repository
ResolvedFromRoot(names) ==
    {i \in RecipeIdx : \E name \in names : Lookup(lib.v, Root, name) = Some(i)}

ExcludedIdx == ResolvedFromRoot(config.exclude)

ExplicitIdx == ResolvedFromRoot(Range(config.recipes))

DefaultIdx == {i \in RecipeIdx : lib.v.recipes[i].info.default = Some(TRUE)}

\* the seed set: non-excluded default recipes plus the configured recipes
SeedIdx == (DefaultIdx \ ExcludedIdx) \cup ExplicitIdx

\* the recipes recipe i names as dependencies, resolved in its repository
DependenciesOf(i) ==
    {j \in RecipeIdx :
        \E k \in 1 .. Len(lib.v.recipes[i].info.dependencies) :
            Lookup(lib.v, lib.v.recipes[i].repository,
                   lib.v.recipes[i].info.dependencies[k]) = Some(j)}

\* everything reachable from S in zero or more hops
RECURSIVE Reachable(_)
Reachable(S) ==
    LET T == S \cup UNION {DependenciesOf(i) : i \in S}
    IN IF T = S THEN S ELSE Reachable(T)

\* C1: when recipe_schedule succeeds, the recipes of the returned jobs are
\* exactly those reachable from the seed set along `dependencies`, and each
\* appears once.
C1_ScheduleIsClosure ==
    pc = "done" =>
        /\ Range(Scheduled) = Reachable(SeedIdx)
        /\ \A i, j \in 1 .. Len(recipes) : i # j => Scheduled[i] # Scheduled[j]
        /\ \A i, j \in 1 .. Len(recipes) : i # j => recipes[i].recipe # recipes[j].recipe

\* a schedule that holds a recipe two hops from its only seed, with another
\* recipe of the library left out
C1_Witness ==
    /\ pc = "done"
    /\ SeedIdx = {1}
    /\ 3 \in DependenciesOf(1) /\ 4 \in DependenciesOf(3) /\ 4 \notin DependenciesOf(1)
    /\ 4 \in Range(Scheduled)
    /\ 2 \notin Range(Scheduled)

\* C2: an excluded recipe is missing from the schedule only if it is neither
\* configured in `recipes` nor a dependency of a scheduled recipe.
C2_ExcludeOnlyDropsDefaults ==
    pc = "done" =>
        \A idx \in ExcludedIdx :
            idx \notin Range(Scheduled) =>
                /\ idx \notin ExplicitIdx
                /\ \A s \in Range(Scheduled) : idx \notin DependenciesOf(s)

\* an excluded default recipe that is scheduled as a dependency, and an
\* excluded recipe that is scheduled because it is configured
C2_Witness ==
    /\ pc = "done"
    /\ \E idx \in ExcludedIdx \cap DefaultIdx :
          /\ idx \notin ExplicitIdx
          /\ idx \in Range(Scheduled)
    /\ \E idx \in ExcludedIdx \cap ExplicitIdx : idx \in Range(Scheduled)

\* the values the configuration supplies for parameter `name` of recipe idx
Supplied(idx, name) ==
    {config.parameters[n][name] :
        n \in {m \in DOMAIN config.parameters :
                  /\ Lookup(lib.v, Root, m) = Some(idx)
                  /\ name \in DOMAIN config.parameters[m]}}

\* C3: in a returned schedule every job has exactly its recipe's declared
\* parameters, each with the configured value if the configuration supplies
\* one, else with the declared default, which then exists.
C3_ParameterPrecedence ==
    pc = "done" =>
        \A i \in 1 .. Len(recipes) :
            LET declared == recipes[i].recipe.info.parameters
            IN /\ DOMAIN recipes[i].parameters = DOMAIN declared
               /\ \A name \in DOMAIN declared :
                     IF Supplied(Scheduled[i], name) # {}
                     THEN recipes[i].parameters[name] \in Supplied(Scheduled[i], name)
                     ELSE /\ declared[name].default.some
                          /\ recipes[i].parameters[name] = declared[name].default.v

\* C4: if the configuration supplies, for some recipe, a parameter the
\* recipe does not declare, recipe_schedule does not return a schedule.
C4_UnknownParameterIsFatal ==
    (\E n \in DOMAIN config.parameters :
        LET found == Lookup(lib.v, Root, n)
        IN /\ found.some
           /\ ~(DOMAIN config.parameters[n]
                    \subseteq DOMAIN lib.v.recipes[found.v].info.parameters))
        => pc # "done"

\* C5: in the returned schedule priorities never increase.
C5_PrioritiesNonIncreasing ==
    pc = "done" =>
        \A i, j \in 1 .. Len(recipes) :
            i < j => recipes[i].recipe.info.priority >= recipes[j].recipe.info.priority

\* the position of the first visit of recipe idx
VisitPosition(idx) == CHOOSE k \in 1 .. Len(hist.order) : hist.order[k] = idx

\* C6: in the returned schedule jobs of equal priority are in the order in
\* which their recipes were first visited.
C6_TiesInVisitOrder ==
    pc = "done" =>
        \A i, j \in 1 .. Len(recipes) :
            (i < j /\ recipes[i].recipe.info.priority = recipes[j].recipe.info.priority)
                => VisitPosition(Scheduled[i]) < VisitPosition(Scheduled[j])

\* the dependency names of recipe i
DependencyNamesOf(i) == Range(lib.v.recipes[i].info.dependencies)

\* what `name` denotes in the repository that owns recipe i
ResolvedByOwner(i, name) == Lookup(lib.v, lib.v.recipes[i].repository, name)

\* C16: when recipe_schedule succeeds, every dependency name of every
\* scheduled recipe denotes a recipe in the repository that owns the
\* depending recipe, and that recipe is scheduled, whether or not the root
\* repository can resolve the name; and every scheduled recipe that is not a
\* seed is such a dependency of a scheduled recipe.
C16_DependenciesResolvedByOwner ==
    pc = "done" =>
        /\ \A i \in Range(Scheduled) :
              \A name \in DependencyNamesOf(i) :
                 /\ ResolvedByOwner(i, name).some
                 /\ ResolvedByOwner(i, name).v \in Range(Scheduled)
        /\ \A j \in Range(Scheduled) \ SeedIdx :
              \E i \in Range(Scheduled) : j \in DependenciesOf(i)

\* a schedule from the one seed x of the root repository: x names "a/x",
\* owned by repository 1, which names "c/z", owned by repository 2; only
\* repository 1 declares "c", and the root repository cannot resolve "c/z"
C16_Witness ==
    /\ pc = "done"
    /\ SeedIdx = {1}
    /\ lib.v.recipes[1].repository = Root
    /\ <<"a", "x">> \in DependencyNamesOf(1)
    /\ ResolvedByOwner(1, <<"a", "x">>) = Some(3)
    /\ lib.v.recipes[3].repository = 1
    /\ <<"c", "z">> \in DependencyNamesOf(3)
    /\ ResolvedByOwner(3, <<"c", "z">>) = Some(4)
    /\ lib.v.recipes[4].repository = 2
    /\ "c" \notin DOMAIN repos.repositories[Root].repositories
    /\ ~Lookup(lib.v, Root, <<"c", "z">>).some
    /\ {1, 3, 4} \subseteq Range(Scheduled)

\* what is left to do in the expansion loop: the entries on the stack, and
\* two for every recipe not yet visited (its push and its pop)
LoopMeasure == Len(stack) + 2 * Cardinality(RecipeIdx \ visited)

\* C17: the loop pushes no recipe index twice and none that was seeded, so
\* it pushes at most as many indices as the library has recipes; and every
\* iteration of the loop decreases LoopMeasure, which is never negative, so
\* the loop ends after at most LoopMeasure iterations, whatever cycles the
\* dependencies form.
C17_ExpansionTerminates ==
    /\ [](/\ \A i, j \in 1 .. Len(hist.pushes) :
                i # j => hist.pushes[i] # hist.pushes[j]
          /\ pc = "expand" =>
                /\ Range(hist.pushes) \subseteq visited
                /\ Range(stack) \subseteq visited
                /\ Len(hist.order) + Cardinality(RecipeIdx \ visited)
                      = Cardinality(RecipeIdx)
                /\ Len(hist.pushes) <= Len(hist.order)
                /\ LoopMeasure >= 0)
    /\ [][(pc = "expand" /\ pc' = "expand") => LoopMeasure' < LoopMeasure]_vars

\* a schedule over a self-cycle (y names y), a diamond (x names y and a/x,
\* y names core/x, the same recipe) and a longer cycle (a/x names c/z, which
\* names core/x): three indices were pushed after the one seed
C17_Witness ==
    /\ pc = "done"
    /\ SeedIdx = {1}
    /\ 2 \in DependenciesOf(2)
    /\ {2, 3} \subseteq DependenciesOf(1) /\ 3 \in DependenciesOf(2)
    /\ 4 \in DependenciesOf(3) /\ 3 \in DependenciesOf(4)
    /\ Range(hist.pushes) = {2, 3, 4} /\ Len(hist.pushes) = 3
    /\ Len(recipes) = 4

\* the configured names that the root repository cannot resolve
UnresolvedExclude ==
    {name \in config.exclude : ~Lookup(lib.v, Root, name).some}

UnresolvedRecipes ==
    {name \in Range(config.recipes) : ~Lookup(lib.v, Root, name).some}

\* recipe i names a dependency that its repository cannot resolve
HasUnresolvedDependency(i) ==
    \E name \in DependencyNamesOf(i) : ~ResolvedByOwner(i, name).some

\* neither the configuration nor any recipe has parameters, so that
\* recipe_schedule can fail only at the resolution of a name
NoParameters ==
    /\ config.parameters = EmptyMap
    /\ \A i \in RecipeIdx : lib.v.recipes[i].info.parameters = EmptyMap

\* C18: recipe_schedule gets past the expansion loop only if every name in
\* `exclude` and in `recipes` and every dependency name of every visited
\* recipe resolves; when it fails it returns no job; and, parameters
\* aside, it fails only if one of those names does not resolve, so an
\* unresolvable dependency of a recipe that is never visited is harmless.
C18_UnresolvableNameIsFatal ==
    /\ pc \notin {"exclude", "seed", "expand", "failed"} =>
          /\ UnresolvedExclude = {}
          /\ UnresolvedRecipes = {}
          /\ \A i \in visited : ~HasUnresolvedDependency(i)
    /\ pc = "failed" => recipes = <<>>
    /\ (pc = "failed" /\ NoParameters) =>
          \/ UnresolvedExclude # {}
          \/ UnresolvedRecipes # {}
          \/ \E i \in visited : HasUnresolvedDependency(i)

\* recipe_schedule has failed at a dependency name of a recipe two hops
\* from the seed: `exclude` and `recipes` resolve, the seed x names "a/x" of
\* repository 1, and "a/x" names "y", which repository 1 does not hold
C18_Witness ==
    /\ pc = "failed"
    /\ UnresolvedExclude = {} /\ UnresolvedRecipes = {}
    /\ SeedIdx = {1}
    /\ ~HasUnresolvedDependency(1)
    /\ 3 \in DependenciesOf(1)
    /\ HasUnresolvedDependency(3)
    /\ 3 \in visited
    /\ recipes = <<>>

-----------------------------------------------------------------------------
(* Claims about apply_recipes (SpecApply) *)

\* the mounts that are active after the first k events, oldest first, each
\* named by the position of its mount event
RECURSIVE ActiveMounts(_)
ActiveMounts(k) ==
    IF k = 0 THEN <<>>
    ELSE LET before == ActiveMounts(k - 1)
         IN IF events[k].op = "mount" THEN Append(before, k)
            ELSE IF events[k].op = "umount"
                 THEN SelectSeq(before, LAMBDA id : id # events[k].id)
                 ELSE before

\* how often the mount made by event k has been unmounted
Releases(k) ==
    Cardinality({u \in 1 .. Len(events) :
                    events[u].op = "umount" /\ events[u].id = k})

\* the targets of the last n events
LastTargets(n) ==
    [i \in 1 .. n |-> events[Len(events) - n + i].target]

\* C10: every unmount releases the youngest mount that is still active; no
\* mount is released twice; when apply_recipes has returned, on whatever
\* path, every mount made has been released once and none is active; after
\* a failed step the releases were the recipe binding, tmp, run, proc, sys,
\* dev/pts, dev, and after normal completion tmp, run, proc, sys, dev/pts,
\* dev.
C10_MountsReleasedInReverse ==
    /\ \A k \in 1 .. Len(events) :
          /\ events[k].op = "umount" =>
                LET before == ActiveMounts(k - 1)
                IN before # <<>> /\ before[Len(before)] = events[k].id
          /\ events[k].op = "mount" => Releases(k) <= 1
    /\ pc = "returned" =>
          /\ guards = <<>>
          /\ ActiveMounts(Len(events)) = <<>>
          /\ \A k \in 1 .. Len(events) : events[k].op = "mount" => Releases(k) = 1
          /\ (result.state = "err" /\ result.error[1] = "step") =>
                LastTargets(7) = <<BakeryRecipePath, "tmp", "run", "proc", "sys",
                                   "dev/pts", "dev">>
          /\ result.state = "ok" =>
                LastTargets(6) = <<"tmp", "run", "proc", "sys", "dev/pts", "dev">>

\* apply_recipes has returned the failure of the second step of the second
\* job: eight mounts were made and eight released
C10_Witness ==
    /\ pc = "returned"
    /\ result.state = "err" /\ result.error[1] = "step"
    /\ job_idx = 2 /\ step_idx = 2
    /\ Cardinality({k \in 1 .. Len(events) : events[k].op = "mount"}) = 8
    /\ Cardinality({k \in 1 .. Len(events) : events[k].op = "umount"}) = 8

\* the positions of the failed steps among the events
FailedSteps ==
    {k \in 1 .. Len(events) : events[k].op = "step" /\ events[k].failed}

\* C11: once a step has failed, nothing is started any more: the events
\* after the failed step are unmounts only (no step of this or a later
\* recipe, no binding of a later recipe, no second run of the failed step),
\* the loop position stays at the failed step, the result is the error of
\* that step from then on, and it is the result apply_recipes returns.
C11_FailedStepStopsEverything ==
    \A k \in FailedSteps :
       /\ \A m \in (k + 1) .. Len(events) : events[m].op = "umount"
       /\ job_idx = events[k].job /\ step_idx = events[k].step
       /\ pc \in {"unwind", "returned"}
       /\ result = Err(<<"step", jobs[events[k].job].recipe.name,
                         jobs[events[k].job].recipe.steps[events[k].step].filename>>)

\* the first step of the first of two jobs failed while a second step and a
\* second job with steps were still to come, and apply_recipes has returned
C11_Witness ==
    /\ pc = "returned"
    /\ Len(jobs) = 2
    /\ Len(jobs[1].recipe.steps) = 2 /\ Len(jobs[2].recipe.steps) >= 1
    /\ \E k \in FailedSteps : events[k].job = 1 /\ events[k].step = 1
    /\ result.state = "err"

\* the positions of the steps among the events
StepEvents == {k \in 1 .. Len(events) : events[k].op = "step"}

\* the step of the job list that event k ran
StepOf(k) == jobs[events[k].job].recipe.steps[events[k].step]

\* the variables every step is said to get, besides the parameters
FixedVariables ==
    {<<"DEBIAN_FRONTEND">>, <<"RUGPI_ROOT_DIR">>, <<"RUGPI_ARCH">>,
     <<"RECIPE_DIR">>, <<"RECIPE_STEP_PATH">>}

\* the variable that carries parameter p
ParameterVariable(p) == <<"RECIPE_PARAM_", ToUppercase(p)>>

\* the command of event k has all the fixed variables and a variable for
\* every parameter of its job
HasFullEnvironment(k) ==
    LET env == events[k].command.vars
    IN /\ FixedVariables \subseteq DOMAIN env
       /\ \A p \in DOMAIN jobs[events[k].job].parameters :
             ParameterVariable(p) \in DOMAIN env

\* C12 as stated: every step of every kind, Packages included, runs with the
\* full injected environment.
C12_EveryStepHasFullEnvironment ==
    \A k \in StepEvents : HasFullEnvironment(k)

\* C12, amended: every Install and every Run step runs with exactly the
\* non-interactive mode, the root directory ("/" in the chroot, the target
\* path on the host), the architecture, the recipe directory, the path of
\* its script, and for each parameter of the job a variable
\* RECIPE_PARAM_<UPPERCASED NAME> holding the value of a parameter with that
\* uppercased name; a Packages step runs the package manager in the chroot
\* with the non-interactive mode only.
C12_ScriptStepsHaveFullEnvironment ==
    \A k \in StepEvents :
       LET env == events[k].command.vars
           job == jobs[events[k].job]
           params == job.parameters
       IN IF StepOf(k).kind.tag = "Packages"
          THEN /\ env = (<<"DEBIAN_FRONTEND">> :> <<"noninteractive">>)
               /\ events[k].command.chroot
          ELSE /\ HasFullEnvironment(k)
               /\ DOMAIN env =
                     FixedVariables \cup {ParameterVariable(p) : p \in DOMAIN params}
               /\ env[<<"DEBIAN_FRONTEND">>] = <<"noninteractive">>
               /\ env[<<"RUGPI_ARCH">>] = <<"arm64">>
               /\ env[<<"RECIPE_STEP_PATH">>] = events[k].command.argv
               /\ events[k].command.chroot = (StepOf(k).kind.tag = "Install")
               /\ IF StepOf(k).kind.tag = "Install"
                  THEN /\ env[<<"RUGPI_ROOT_DIR">>] = <<"/">>
                       /\ env[<<"RECIPE_DIR">>] = <<"/run/rugpi/bakery/recipe/">>
                       /\ env[<<"RECIPE_STEP_PATH">>] =
                             <<"/run/rugpi/bakery/recipe/steps/", StepOf(k).filename>>
                  ELSE /\ env[<<"RUGPI_ROOT_DIR">>] = <<"root_dir_path">>
                       /\ env[<<"RECIPE_DIR">>] = <<job.recipe.path>>
                       /\ env[<<"RECIPE_STEP_PATH">>] =
                             <<job.recipe.path, "steps", StepOf(k).filename>>
               /\ \A p \in DOMAIN params :
                     \E q \in DOMAIN params :
                        /\ ToUppercase(q) = ToUppercase(p)
                        /\ env[ParameterVariable(p)] = <<params[q]>>

\* a Packages, an Install and a Run step have run for jobs with the
\* parameters "p" and "P", whose uppercased names coincide
C12_Witness ==
    /\ \A tag \in {"Packages", "Install", "Run"} :
          \E k \in StepEvents : StepOf(k).kind.tag = tag
    /\ \E k \in StepEvents : DOMAIN jobs[events[k].job].parameters = {"p", "P"}

\* the mount events, among the mounts active after the first k events, that
\* bound something at the recipe mount point
RecipeBindings(k) ==
    SelectSeq(ActiveMounts(k), LAMBDA id : events[id].target = BakeryRecipePath)

\* the targets of the mounts active after the first k events, oldest first
ActiveTargets(k) ==
    LET active == ActiveMounts(k)
    IN [i \in 1 .. Len(active) |-> events[active[i]].target]

\* C15: at any time at most one recipe directory is bound at the recipe
\* mount point; when the directory of a job is bound there, no other binding
\* is active (the one of the job before has been released); and at every
\* step, before and after it runs, the active mounts are the six setup
\* mounts and on top of them the binding of the directory of the step's job.
C15_OneRecipeBoundAtATime ==
    /\ \A k \in 0 .. Len(events) : Len(RecipeBindings(k)) <= 1
    /\ \A k \in 1 .. Len(events) :
          /\ (events[k].op = "mount" /\ events[k].target = BakeryRecipePath) =>
                RecipeBindings(k - 1) = <<>>
          /\ events[k].op = "step" =>
                /\ ActiveTargets(k) =
                      <<"dev", "dev/pts", "sys", "proc", "run", "tmp",
                        BakeryRecipePath>>
                /\ ActiveTargets(k - 1) = ActiveTargets(k)
                /\ LET bound == RecipeBindings(k)
                   IN /\ Len(bound) = 1
                      /\ events[bound[1]].source =
                            jobs[events[k].job].recipe.path

\* a step of the second job has run, after the steps and the release of the
\* binding of the first job
C15_Witness ==
    /\ \E k \in StepEvents : events[k].job = 1
    /\ \E k \in StepEvents :
          /\ events[k].job = 2
          /\ events[RecipeBindings(k)[1]].source = jobs[2].recipe.path
          /\ jobs[1].recipe.path # jobs[2].recipe.path

\* the positions of the failures that end apply_recipes: a mount, the
\* creation of the recipe mount point, or a step
Failures ==
    {k \in 1 .. Len(events) :
        \/ events[k].op \in {"mount_failed", "create_dir_all_failed"}
        \/ events[k].op = "step" /\ events[k].failed}

\* the error of the failure at position k
ErrorOf(k) ==
    CASE events[k].op = "mount_failed" -> <<"mount", events[k].target>>
      [] events[k].op = "create_dir_all_failed" ->
            <<"create_dir_all", events[k].target>>
      [] events[k].op = "step" ->
            <<"step", jobs[events[k].job].recipe.name,
              jobs[events[k].job].recipe.steps[events[k].step].filename>>

\* the positions of the unmounts that reported a failure
FailedUnmounts ==
    {k \in 1 .. Len(events) : events[k].op = "umount" /\ events[k].failed}

\* C20: there is at most one failing mount, directory creation or step, and
\* nothing but unmounts follows it; from that failure on, through all the
\* unmounts of the unwinding, failed ones included, and at the return, the
\* result is the error of that failure; and the result is an error only if
\* there was such a failure, however many unmounts failed.
C20_FirstFailureIsReturned ==
    /\ Cardinality(Failures) <= 1
    /\ \A k \in Failures :
          /\ result = Err(ErrorOf(k))
          /\ \A m \in (k + 1) .. Len(events) : events[m].op = "umount"
    /\ result.state = "err" => Failures # {}
    /\ (pc = "returned" /\ Failures = {}) => result = Ok

\* apply_recipes has returned the error of a failed step of the second
\* job although unmounts failed before the step (the binding of the first
\* job) and after it (while unwinding)
C20_Witness ==
    /\ pc = "returned"
    /\ \E k \in Failures :
          /\ events[k].op = "step" /\ events[k].job = 2
          /\ result = Err(ErrorOf(k))
          /\ \E u \in FailedUnmounts : u < k
          /\ Cardinality({u \in FailedUnmounts : u > k}) >= 3

-----------------------------------------------------------------------------
(* Claims about the layers of Library::load (SpecLayers) *)

\* the layer a file stem contributes to: what precedes its first '.'
LayerNameOf(stem) == Head(stem)

\* the modification times of the files of `entries` that contribute to `name`
ContributingTimes(entries, name) ==
    {entries[i].modified :
        i \in {j \in 1 .. Len(entries) : LayerNameOf(entries[j].stem) = name}}

Greatest(S) == CHOOSE m \in S : \A x \in S : x <= m

\* the state of the scan of `entries` after its first k files
ScanAfter(entries, k) == LoadLayerDir(SubSeq(entries, 1, k), <<>>, EmptyMap)

\* C13: after a successful load, the modified time of every layer of every
\* repository is the greatest modification time among the files of that
\* repository that contribute to the layer, whatever the order in which the
\* files were read; and while a directory is scanned, the modified time of a
\* layer that exists never decreases from one file to the next.
C13_LayerModifiedIsMaximum ==
    (pc \in {"loaded", "called"} /\ lib.some) =>
        \A r \in RepositoryIdx :
           /\ DOMAIN lib.v.layer_tables[r] =
                 {LayerNameOf(dirs.layers[r][i].stem) : i \in 1 .. Len(dirs.layers[r])}
           /\ \A name \in DOMAIN lib.v.layer_tables[r] :
                 lib.v.layers[lib.v.layer_tables[r][name]].modified =
                    Greatest(ContributingTimes(dirs.layers[r], name))
           /\ \A k \in 0 .. Len(dirs.layers[r]) - 1 :
                 LET before == ScanAfter(dirs.layers[r], k)
                     after == ScanAfter(dirs.layers[r], k + 1)
                 IN \A name \in DOMAIN before.table :
                       /\ name \in DOMAIN after.table
                       /\ after.layers[after.table[name]].modified >=
                             before.layers[before.table[name]].modified

\* the library is loaded from a directory whose first file of layer "l" is
\* the newest of three, next to a layer "l" of another repository
C13_Witness ==
    /\ pc = "loaded" /\ lib.some
    /\ Len(dirs.layers[1]) = 3
    /\ \A i \in 1 .. 3 : LayerNameOf(dirs.layers[1][i].stem) = "l"
    /\ dirs.layers[1][1].modified = MaxMtime
    /\ dirs.layers[1][2].modified = 1 /\ dirs.layers[1][3].modified = 1
    /\ lib.v.layers[lib.v.layer_tables[1]["l"]].modified = MaxMtime
    /\ lib.v.layer_tables[0]["l"] # lib.v.layer_tables[1]["l"]

-----------------------------------------------------------------------------
(* Claims about Project::repositories and Project::library (SpecProject) *)

\* the calls that returned Ok
Successful == {i \in 1 .. Len(returns) : returns[i].result.state = "ok"}

\* C14: once a call of repositories() or library() has returned Ok, the
\* loader of that function is not invoked by any later call and every later
\* call of that function returns the same value, which stays in the cell.
\* A successful library() has loaded the repositories too: the repositories
\* loader is not invoked after it either, a repositories() call after it
\* returns the repositories the library was built from, and a library built
\* after a successful repositories() is built from the value that call
\* returned.  So the repositories are loaded successfully at most once.
C14_LoadedOnceAndCached ==
    \A i \in Successful :
       LET fn == returns[i].fn
           value == returns[i].result.v
       IN /\ lazy[fn] = Some(value)
          /\ loads[fn] = returns[i].loads[fn]
          /\ fn = "library" =>
                /\ lazy.repositories = Some(value.repositories)
                /\ loads.repositories = returns[i].loads.repositories
          /\ \A j \in (i + 1) .. Len(returns) :
                /\ returns[j].loads[fn] = returns[i].loads[fn]
                /\ returns[j].fn = fn => returns[j].result = returns[i].result
                /\ (fn = "library" /\ returns[j].fn = "repositories") =>
                      returns[j].result = OkValue(value.repositories)
                /\ (fn = "repositories" /\ returns[j].fn = "library"
                        /\ j \in Successful) =>
                      returns[j].result.v.repositories = value

\* library() loaded the repositories and then failed to load the library;
\* repositories() returned the cached repositories; library() succeeded at
\* its second load with those repositories; a fourth call changed nothing
C14_Witness ==
    /\ Len(returns) = 4
    /\ returns[1].fn = "library" /\ returns[1].result.state = "err"
    /\ returns[1].loads = [repositories |-> 1, library |-> 1]
    /\ returns[2].fn = "repositories" /\ 2 \in Successful
    /\ returns[3].fn = "library" /\ 3 \in Successful
    /\ returns[4].fn = "library" /\ 4 \in Successful
    /\ loads = [repositories |-> 1, library |-> 2]

\* the calls that returned Err
Failed == {i \in 1 .. Len(returns) : returns[i].result.state = "err"}

\* the errors of the two loaders
LoaderErrors ==
    [repositories |-> {Err(<<"ProjectRepositories::load">>)},
     library |-> {Err(<<"ProjectRepositories::load">>), Err(<<"Library::load">>)}]

\* C21: a call that fails returns the error of a loader its closure ran and
\* its cell is empty when it returns; the next call of repositories() or library() after
\* a failed repositories(), and the next library() after a failed
\* library(), invoke a loader again; a cell that is filled holds the value
\* of the last invocation of its loader, which is the only one that
\* succeeded, and a cell is empty as long as no invocation has succeeded.
C21_FailureCachesNothing ==
    /\ \A i \in Failed :
          LET fn == returns[i].fn
              before == IF i = 1 THEN [repositories |-> 0, library |-> 0]
                        ELSE returns[i - 1].loads
          IN /\ returns[i].result \in LoaderErrors[fn]
             /\ returns[i].loads # before
             /\ i = Len(returns) => lazy[fn] = None
             /\ (fn = "repositories" /\ i < Len(returns)) =>
                    returns[i + 1].loads.repositories
                        = returns[i].loads.repositories + 1
             /\ \A j \in (i + 1) .. Len(returns) :
                   (/\ returns[j].fn = "library" /\ fn = "library"
                    /\ \A k \in (i + 1) .. (j - 1) : returns[k].fn # "library") =>
                      returns[j].loads # returns[j - 1].loads
    /\ \A fn \in {"repositories", "library"} :
          /\ lazy[fn].some => lazy[fn].v.id = loads[fn]
          /\ loads[fn] = 0 => lazy[fn] = None
    /\ (lazy.library.some /\ lazy.repositories.some) =>
          lazy.library.v.repositories = lazy.repositories.v

\* repositories() failed; library() loaded the repositories at the second
\* invocation of their loader and failed to load the library; library()
\* then loaded the library at the second invocation of its loader, from the
\* cached repositories
C21_Witness ==
    /\ Len(returns) = 3
    /\ returns[1].fn = "repositories" /\ 1 \in Failed
    /\ returns[2].fn = "library" /\ 2 \in Failed
    /\ returns[2].result = Err(<<"Library::load">>)
    /\ returns[3].fn = "library" /\ 3 \in Successful
    /\ loads = [repositories |-> 2, library |-> 2]
    /\ lazy.repositories = Some([id |-> 2])
    /\ lazy.library = Some([id |-> 2, repositories |-> [id |-> 2]])

-----------------------------------------------------------------------------
(* Claims about run (SpecRun) *)

\* the positions of recipe_schedule, from its entry to its failure or panic
Scheduling == {"exclude", "seed", "expand", "jobs", "sort", "failed", "panicked"}

\* the positions of the events with operation `op`
EventsOf(op) == {k \in 1 .. Len(events) : events[k].op = op}

\* the events that act on the target tree: mounts, failed mounts, unmounts,
\* the creation of the recipe mount point, steps, extraction and packing
TreeEvents ==
    {k \in 1 .. Len(events) :
        events[k].op \in {"extract", "mount", "mount_failed", "umount",
                          "create_dir_all", "create_dir_all_failed", "step",
                          "pack"}}

\* C22: before the library is loaded, while recipe_schedule runs and after
\* it has failed or panicked, nothing has happened: no temporary directory,
\* no extraction, no mount, no step; a run that returns the failure of the
\* library or of the schedule has done nothing either.  Everything that
\* acts on the target tree comes after the extraction, which comes after
\* the schedule is complete and is the job list applied.  The tree is
\* packed at most once, only when apply_recipes has returned Ok, with every
\* mount made before it released and none active, and nothing but the
\* removal of the temporary directory follows it; run returns Ok only after
\* a packing that succeeded.
C22_ScheduleFirstPackLast ==
    /\ pc \in Scheduling \cup {"run"} =>
          /\ events = <<>> /\ guards = <<>> /\ jobs = <<>>
          /\ result.state = "none"
    /\ run_result \in {Err(<<"load_library">>), Err(<<"recipe_schedule">>)} =>
          events = <<>> /\ guards = <<>>
    /\ \A k \in TreeEvents :
          /\ \E e \in EventsOf("extract") : e <= k
          /\ events[1].op = "tempdir"
          /\ jobs = recipes
    /\ Cardinality(EventsOf("extract")) <= 1
    /\ Cardinality(EventsOf("pack")) <= 1
    /\ \A k \in EventsOf("pack") :
          /\ result = Ok
          /\ pc = "run_returned"
          /\ ActiveMounts(k - 1) = <<>> /\ guards = <<>>
          /\ \A m \in EventsOf("mount") : m < k /\ Releases(m) = 1
          /\ \A u \in EventsOf("umount") : u < k
          /\ \A s \in EventsOf("step") : s < k /\ ~events[s].failed
          /\ \A m \in (k + 1) .. Len(events) : events[m].op = "remove_tempdir"
    /\ run_result = Ok =>
          \E k \in EventsOf("pack") : ~events[k].failed

\* run has returned Ok: three recipes were scheduled, the archive was
\* extracted, all four steps ran under nine mounts, an unmount failed, and
\* the tree was packed after the last unmount
C22_Witness ==
    /\ pc = "run_returned" /\ run_result = Ok
    /\ Len(recipes) = 3
    /\ Cardinality(EventsOf("step")) = 4
    /\ Cardinality(EventsOf("mount")) = 9
    /\ Cardinality(EventsOf("umount")) = 9
    /\ \E u \in EventsOf("umount") : events[u].failed
    /\ \E k \in EventsOf("pack") :
          /\ ~events[k].failed
          /\ events[k - 1].op = "umount" /\ events[k - 1].target = "dev"

====
